---- MODULE Spec2Model ----
(***************************************************************************)
(* A model of the Currents News API client (currents_news_client):         *)
(* parameter validation, HTTP dispatch with bounded retry and backoff,     *)
(* classification of HTTP error responses, mapping of the received body    *)
(* into NewsResponse, and the lifecycle of the client's session.           *)
(*                                                                         *)
(* Python values are represented as follows.  None of a string-typed value *)
(* is the string NoneStr.  An Optional[int], and the optional Retry-After   *)
(* header, is a set of at most one element ({} is None).  Strings that the  *)
(* code inspects character by character (keywords, base_url, the header's   *)
(* text) are sequences of one-character strings; a base_url is a sequence   *)
(* whose "/" elements are its slashes.  A raised exception is a record with *)
(* the class name in kind and the attributes its constructor sets.          *)
(***************************************************************************)
EXTENDS Integers, Sequences, FiniteSets, TLC

VARIABLES
    environ,          \* value of NEWS_API_KEY in the process environment
    ctorArg,          \* api_key argument given to CurrentsClient(...)
    cstate,           \* "unconstructed" | "failed" | "constructed"
    config,           \* HTTPClient attributes: base_url, apiKey, max_retries, retry_delay
    sessionsCreated,  \* number of requests.Session() objects created
    sessionCloses,    \* number of session.close() calls
    scope,            \* "out" | "in": inside a with-block of the client
    scopesEntered,    \* number of __enter__ calls
    scopesExited,     \* number of __exit__ calls
    opsStarted,       \* number of public operations called
    cur,              \* the operation in progress or last called, with its arguments
                      \* and whether it was called inside the with-block
    pc,               \* "idle" | "attempt" | "sleep": position inside HTTPClient.request
    attempt,          \* loop variable of HTTPClient.request
    trace,            \* session.get and time.sleep events of the current operation
    reqResult,        \* how HTTPClient.request ended for the current operation
    outcome,          \* how the last public call (or the constructor) ended
    callers           \* the same per thread, for threads sharing the client

vars == <<environ, ctorArg, cstate, config, sessionsCreated, sessionCloses, scope,
          scopesEntered, scopesExited, opsStarted, cur, pc, attempt, trace,
          reqResult, outcome, callers>>

-----------------------------------------------------------------------------
(* Bounds of the model *)

MaxOps == 2
MaxScopes == 1

-----------------------------------------------------------------------------
(* Program constants *)

HTTP401 == 401
HTTP400 == 400
HTTP429 == 429
HTTP500 == 500
REQUEST_TIMEOUT == 30
MAX_LIMIT == 100
MIN_LIMIT == 1

LATEST_NEWS_ENDPOINT == "/latest-news"
SEARCH_ENDPOINT == "/search"

NoneStr == "<None>"

ERROR_MESSAGES ==
    [invalid_api_key |-> "Invalid API key provided",
     rate_limit_exceeded |-> "API rate limit exceeded. Please try again later.",
     invalid_parameters |-> "Invalid request parameters provided",
     server_error |-> "API server error. Please try again later.",
     connection_error |-> "Failed to connect to Currents API",
     invalid_response |-> "Invalid response from API",
     missing_required_field |-> "Missing required field: {field}",
     invalid_language |-> "Invalid language code. Supported: en, es, fr, de, it, pt, ru, ar, hi, zh, ja, ko, th, vi",
     invalid_category |-> "Invalid category. Supported: world, politics, business, technology, sports, entertainment, health, science, regional, hardware, lifestyle, travel",
     limit_out_of_range |-> "Limit must be between 1 and 100"]

-----------------------------------------------------------------------------
(* Python helpers *)

\* bool(s) of an Optional[str]
Truthy(s) == s # NoneStr /\ s # ""

Whitespace == {" ", "\t", "\n"}

RECURSIVE LStrip(_, _)
LStrip(s, chars) ==
    IF s # <<>> /\ Head(s) \in chars THEN LStrip(Tail(s), chars) ELSE s

RECURSIVE RStrip(_, _)
RStrip(s, chars) ==
    IF s # <<>> /\ s[Len(s)] \in chars THEN RStrip(SubSeq(s, 1, Len(s) - 1), chars) ELSE s

\* str.strip()
Strip(s) == RStrip(LStrip(s, Whitespace), Whitespace)

DigitValue ==
    [c \in {"0", "1", "2", "3", "4", "5", "6", "7", "8", "9"} |->
        CASE c = "0" -> 0 [] c = "1" -> 1 [] c = "2" -> 2 [] c = "3" -> 3
          [] c = "4" -> 4 [] c = "5" -> 5 [] c = "6" -> 6 [] c = "7" -> 7
          [] c = "8" -> 8 [] c = "9" -> 9]

RECURSIVE DigitsToInt(_)
DigitsToInt(s) ==
    IF s = <<>> THEN 0
    ELSE 10 * DigitsToInt(SubSeq(s, 1, Len(s) - 1)) + DigitValue[s[Len(s)]]

\* int(s) of a str: {n} when s is an optionally signed decimal literal with
\* optional surrounding whitespace, {} when int(s) raises ValueError
IntOfStr(s) ==
    LET t == Strip(s)
        signed == t # <<>> /\ Head(t) \in {"+", "-"}
        digits == IF signed THEN Tail(t) ELSE t
    IN  IF digits # <<>> /\ \A i \in 1..Len(digits) : digits[i] \in DOMAIN DigitValue
        THEN {IF signed /\ Head(t) = "-" THEN 0 - DigitsToInt(digits) ELSE DigitsToInt(digits)}
        ELSE {}

RECURSIVE Pow2(_)
Pow2(n) == IF n = 0 THEN 1 ELSE 2 * Pow2(n - 1)

-----------------------------------------------------------------------------
(* Results of calls: a returned value, or a raised exception with the place *)
(* of the raise statement                                                   *)

NoResult == [tag |-> "none"]
Return(v) == [tag |-> "return", value |-> v]
Raise(e, site) == [tag |-> "raise", site |-> site, exc |-> e]

-----------------------------------------------------------------------------
(* exceptions.py *)

CurrentsAPIError(message, status_code) ==
    [message |-> message, status_code |-> status_code, kind |-> "CurrentsAPIError",
     retry_after |-> {}, field |-> {}]

CurrentsAuthenticationError(message) ==
    [CurrentsAPIError(message, {HTTP401}) EXCEPT !.kind = "CurrentsAuthenticationError"]

CurrentsRateLimitError(message, retry_after) ==
    [CurrentsAPIError(message, {HTTP429}) EXCEPT !.kind = "CurrentsRateLimitError",
                                                 !.retry_after = retry_after]

\* Mutant: the Validation error passes no status code to its base class
CurrentsValidationError_NoStatus(message) ==
    [CurrentsAPIError(message, {}) EXCEPT !.kind = "CurrentsValidationError"]

CurrentsValidationError(message) ==
    [CurrentsAPIError(message, {HTTP400}) EXCEPT !.kind = "CurrentsValidationError"]

CurrentsServerError(message) ==
    [CurrentsAPIError(message, {HTTP500}) EXCEPT !.kind = "CurrentsServerError"]

CurrentsConnectionError(message) ==
    [CurrentsAPIError(message, {}) EXCEPT !.kind = "CurrentsConnectionError"]

CurrentsResponseError(message) ==
    [CurrentsAPIError(message, {}) EXCEPT !.kind = "CurrentsResponseError"]

\* A message built by str.format from a template and its arguments
Msg(text) == [text |-> text, code |-> {}, reason |-> ""]

-----------------------------------------------------------------------------
(* client.py: _ParameterValidator.  Each validator gives NoResult when it   *)
(* returns and Raise(...) when it raises.                                   *)

valid_languages ==
    {"en", "es", "fr", "de", "it", "pt", "ru", "ar", "hi", "zh", "ja", "ko", "th", "vi"}

valid_categories ==
    {"world", "politics", "business", "technology", "sports", "entertainment",
     "health", "science", "regional", "hardware", "lifestyle", "travel"}

validate_language(language) ==
    IF language \notin valid_languages
    THEN Raise(CurrentsValidationError(Msg(ERROR_MESSAGES.invalid_language)), "validate_language")
    ELSE NoResult

\* Mutant: the lower bound compared with 0 instead of MIN_LIMIT
validate_limit_ZeroAllowed(limit) ==
    IF limit < 0 \/ limit > MAX_LIMIT
    THEN Raise(CurrentsValidationError(Msg(ERROR_MESSAGES.limit_out_of_range)), "validate_limit")
    ELSE NoResult

validate_limit(limit) ==
    IF limit < MIN_LIMIT \/ limit > MAX_LIMIT
    THEN Raise(CurrentsValidationError(Msg(ERROR_MESSAGES.limit_out_of_range)), "validate_limit")
    ELSE NoResult

validate_category(category) ==
    IF category \notin valid_categories
    THEN Raise(CurrentsValidationError(Msg(ERROR_MESSAGES.invalid_category)), "validate_category")
    ELSE NoResult

\* Mutant: the keywords are tested for emptiness without stripping
validate_keywords_NoStrip(keywords) ==
    IF keywords = <<>>
    THEN Raise(CurrentsValidationError(Msg(ERROR_MESSAGES.invalid_parameters)), "validate_keywords")
    ELSE NoResult

validate_keywords(keywords) ==
    IF keywords = <<>> \/ Strip(keywords) = <<>>
    THEN Raise(CurrentsValidationError(Msg(ERROR_MESSAGES.invalid_parameters)), "validate_keywords")
    ELSE NoResult

\* Mutant: the limit check left out of the composite validation
validate_params_NoLimit(language, limit, category) ==
    IF validate_language(language).tag = "raise" THEN validate_language(language)
    ELSE IF Truthy(category) THEN validate_category(category)
    ELSE NoResult

\* Mutant: the limit is checked before the language
validate_params_LimitFirst(language, limit, category) ==
    IF validate_limit(limit).tag = "raise" THEN validate_limit(limit)
    ELSE IF validate_language(language).tag = "raise" THEN validate_language(language)
    ELSE IF Truthy(category) THEN validate_category(category)
    ELSE NoResult

validate_params(language, limit, category) ==
    IF validate_language(language).tag = "raise" THEN validate_language(language)
    ELSE IF validate_limit(limit).tag = "raise" THEN validate_limit(limit)
    ELSE IF Truthy(category) THEN validate_category(category)
    ELSE NoResult

-----------------------------------------------------------------------------
(* HTTP responses as session.get delivers them.  body is the decoded JSON   *)
(* document: shape "invalid" is a body response.json() rejects, "array" and *)
(* "scalar" are JSON values that are no dict, "object" is a dict whose keys *)
(* are in the field keys.  retry_after is the Retry-After header: {} when   *)
(* absent, else {its text}.                                                 *)

\* requests.Response.raise_for_status: HTTPError for 4xx and 5xx, nothing otherwise
raises_for_status(response) ==
    response.status_code >= 400 /\ response.status_code < 600

\* response.headers.get('Retry-After'): {} is None, else {the header's text}
headers_get_retry_after(response) == response.retry_after

-----------------------------------------------------------------------------
(* client.py: _ErrorRaiser and _HTTPErrorHandler *)

raise_auth_error ==
    Raise(CurrentsAuthenticationError(Msg(ERROR_MESSAGES.invalid_api_key)), "raise_auth_error")

raise_validation_error ==
    Raise(CurrentsValidationError(Msg(ERROR_MESSAGES.invalid_parameters)), "raise_validation_error")

raise_server_error ==
    Raise(CurrentsServerError(Msg(ERROR_MESSAGES.server_error)), "raise_server_error")

raise_generic_error(status_code, response) ==
    Raise(CurrentsAPIError([text |-> "HTTP {0}: {1}", code |-> {status_code},
                            reason |-> response.reason], {}),
          "raise_generic_error")

\* Mutant: the Retry-After header is not read
_handle_rate_limit_error_NoHeader(response) ==
    Raise(CurrentsRateLimitError(Msg(ERROR_MESSAGES.rate_limit_exceeded), {}),
          "_handle_rate_limit_error")

_handle_rate_limit_error(response) ==
    LET retry_after_str == headers_get_retry_after(response)
        retry_after == IF retry_after_str # {} /\ retry_after_str # {<<>>}
                       THEN IntOfStr(CHOOSE h \in retry_after_str : TRUE)
                       ELSE {}
    IN  Raise(CurrentsRateLimitError(Msg(ERROR_MESSAGES.rate_limit_exceeded), retry_after),
              "_handle_rate_limit_error")

\* Mutant: the server-error range starts after 500
handle_http_error_Above500(status_code, response) ==
    IF status_code = HTTP401 THEN raise_auth_error
    ELSE IF status_code = HTTP429 THEN _handle_rate_limit_error(response)
    ELSE IF status_code = HTTP400 THEN raise_validation_error
    ELSE IF status_code > HTTP500 THEN raise_server_error
    ELSE raise_generic_error(status_code, response)

handle_http_error(status_code, response) ==
    IF status_code = HTTP401 THEN raise_auth_error
    ELSE IF status_code = HTTP429 THEN _handle_rate_limit_error(response)
    ELSE IF status_code = HTTP400 THEN raise_validation_error
    ELSE IF status_code >= HTTP500 THEN raise_server_error
    ELSE raise_generic_error(status_code, response)

parse_response_json(response) ==
    IF response.body.shape = "invalid"
    THEN Raise(CurrentsResponseError([text |-> "{0}: Invalid JSON", code |-> {},
                                      reason |-> ERROR_MESSAGES.invalid_response]),
               "parse_response_json")
    ELSE Return(response.body)

\* Mutant: the parsed document is returned without the isinstance check
_handle_response_NoDictCheck(response) ==
    LET handled == IF raises_for_status(response)
                   THEN handle_http_error(response.status_code, response)
                   ELSE NoResult
        response_data == parse_response_json(response)
    IN  IF handled.tag = "raise" THEN handled
        ELSE IF response_data.tag = "raise" THEN response_data
        ELSE Return(response_data.value)

\* HTTPClient._handle_response: what request returns or raises for a response
_handle_response(response) ==
    LET handled == IF raises_for_status(response)
                   THEN handle_http_error(response.status_code, response)
                   ELSE NoResult
        response_data == parse_response_json(response)
    IN  IF handled.tag = "raise" THEN handled
        ELSE IF response_data.tag = "raise" THEN response_data
        ELSE IF response_data.value.shape # "object"
        THEN Raise(CurrentsResponseError(Msg(ERROR_MESSAGES.invalid_response)), "_handle_response")
        ELSE Return(response_data.value)

-----------------------------------------------------------------------------
(* models.py: NewsArticle and NewsResponse.  An article of the body is a    *)
(* record with the set keys of the fields it has; pydantic raises its own   *)
(* ValidationError, which lists the location of every failed field:         *)
(* <<"news", i, f>> is field f of article i, index 0 is the body itself.    *)

RequiredArticleFields == {"id", "title", "description", "url", "language", "published"}

\* HttpUrl accepts an absolute http(s) URL
HttpUrlOk(u) == u \in {"https://example.com/article1", "https://example.com/article2"}

\* datetime accepts an ISO-8601 timestamp
DatetimeOk(d) == d \in {"2024-01-01T12:00:00+00:00", "2024-01-01T13:00:00+00:00"}

ArticleErrors(a) ==
    (RequiredArticleFields \ a.keys)
        \cup (IF "url" \in a.keys /\ ~HttpUrlOk(a.url) THEN {"url"} ELSE {})
        \cup (IF "published" \in a.keys /\ ~DatetimeOk(a.published) THEN {"published"} ELSE {})

NewsArticle(a) ==
    [language |-> a.language,
     category |-> IF "category" \in a.keys THEN a.category ELSE <<>>,
     url |-> a.url, published |-> a.published,
     id |-> a.id, title |-> a.title, description |-> a.description,
     author |-> IF "author" \in a.keys THEN a.author ELSE NoneStr,
     image |-> IF "image" \in a.keys THEN a.image ELSE NoneStr]

\* Mutant: the articles are collected in reverse order
NewsResponse_Reversed(response_data) ==
    LET errors ==
            (IF "status" \in response_data.keys THEN {} ELSE {<<"status", 0, "">>})
                \cup (IF "news" \in response_data.keys
                      THEN UNION {{<<"news", i, f>> : f \in ArticleErrors(response_data.news[i])} :
                                   i \in 1..Len(response_data.news)}
                      ELSE {<<"news", 0, "">>})
        n == Len(response_data.news)
    IN  IF errors # {}
        THEN Raise([kind |-> "pydantic.ValidationError", errors |-> errors], "NewsResponse")
        ELSE Return([news |-> [i \in 1..n |-> NewsArticle(response_data.news[n + 1 - i])],
                     status |-> response_data.status])

\* NewsResponse(**response_data)
NewsResponse(response_data) ==
    LET errors ==
            (IF "status" \in response_data.keys THEN {} ELSE {<<"status", 0, "">>})
                \cup (IF "news" \in response_data.keys
                      THEN UNION {{<<"news", i, f>> : f \in ArticleErrors(response_data.news[i])} :
                                   i \in 1..Len(response_data.news)}
                      ELSE {<<"news", 0, "">>})
    IN  IF errors # {}
        THEN Raise([kind |-> "pydantic.ValidationError", errors |-> errors], "NewsResponse")
        ELSE Return([news |-> [i \in 1..Len(response_data.news) |->
                                  NewsArticle(response_data.news[i])],
                     status |-> response_data.status])

\* NewsResponse.total_count
total_count(news_response) == Len(news_response.news)

-----------------------------------------------------------------------------
(* Inputs: the arguments callers pass and what the network delivers *)

EnvInputs == {NoneStr, "", "env-api-key"}
ApiKeyInputs == {NoneStr, "", "valid-api-key-12345"}
BaseUrlInputs ==
    {<<"https://api.currentsapi.services/v1">>,
     <<"https://api.currentsapi.services/v1", "/">>}

LanguageInputs == {"en", "invalid_language"}
LimitInputs == {0, 1, 100, 101}
KeywordInputs == {<<>>, <<" ", "\t">>, <<" ", "a", "i", " ">>}
DomainInputs == {NoneStr, "", "example.com"}
CategoryInputs == {"technology", "invalid_category", ""}

Article1 ==
    [language |-> "en", category |-> <<"technology">>,
     keys |-> {"id", "title", "description", "url", "author", "image", "language",
               "category", "published"},
     url |-> "https://example.com/article1",
     published |-> "2024-01-01T12:00:00+00:00",
     id |-> "test-id-1", title |-> "Test News Article 1",
     description |-> "This is a test news article description",
     author |-> "Test Author", image |-> "https://example.com/image1.jpg"]

Article2 ==
    [language |-> "en", category |-> <<>>,
     keys |-> {"id", "title", "description", "url", "language", "published"},
     url |-> "https://example.com/article2",
     published |-> "2024-01-01T13:00:00+00:00",
     id |-> "test-id-2", title |-> "Test News Article 2",
     description |-> "Another test news article description",
     author |-> NoneStr, image |-> NoneStr]

ArticleBadUrl == [Article1 EXCEPT !.url = "not-a-url"]
ArticleNoTitle == [Article2 EXCEPT !.keys = @ \ {"title"}]

Body(shape, keys, status, news) ==
    [shape |-> shape, keys |-> keys, news |-> news, status |-> status]

BodyInvalid == Body("invalid", {}, "", <<>>)
BodyArray == Body("array", {}, "", <<>>)
BodyScalar == Body("scalar", {}, "", <<>>)
BodyEmptyNews == Body("object", {"status", "news"}, "ok", <<>>)
BodyTwoNews == Body("object", {"status", "news"}, "ok", <<Article1, Article2>>)
BodyErrorObject == Body("object", {"status", "message"}, "error", <<>>)
BodyBadUrl == Body("object", {"status", "news"}, "ok", <<Article2, ArticleBadUrl>>)
BodyNoTitle == Body("object", {"status", "news"}, "ok", <<ArticleNoTitle>>)

Response(status_code, reason, body, retry_after) ==
    [status_code |-> status_code, retry_after |-> retry_after, reason |-> reason,
     body |-> body]

Responses ==
    {Response(200, "OK", b, {}) :
        b \in {BodyInvalid, BodyArray, BodyScalar, BodyEmptyNews, BodyTwoNews,
               BodyErrorObject, BodyBadUrl, BodyNoTitle}}
    \cup {Response(204, "No Content", BodyInvalid, {}),
          Response(300, "Multiple Choices", BodyEmptyNews, {}),
          Response(304, "Not Modified", BodyInvalid, {}),
          Response(400, "Bad Request", BodyErrorObject, {}),
          Response(401, "Unauthorized", BodyErrorObject, {}),
          Response(401, "Unauthorized", BodyInvalid, {}),
          Response(404, "Not Found", BodyErrorObject, {}),
          Response(418, "I'm a teapot", BodyInvalid, {}),
          Response(500, "Internal Server Error", BodyErrorObject, {}),
          Response(503, "Service Unavailable", BodyTwoNews, {})}
    \cup {Response(429, "Too Many Requests", BodyErrorObject, h) :
            h \in {{}, {<<>>}, {<<"6", "0">>}, {<<"s", "o", "o", "n">>}}}

-----------------------------------------------------------------------------
(* client.py: HTTPClient *)

\* Mutant: max_retries read as the number of retries after the first attempt
HTTPClientInit_TwoAttempts(api_key, base_url) ==
    [base_url |-> RStrip(base_url, {"/"}),
     apiKey |-> api_key,
     max_retries |-> 2,
     retry_delay |-> 1]

\* HTTPClient.__init__: the attributes of the new HTTPClient
HTTPClientInit(api_key, base_url) ==
    [base_url |-> RStrip(base_url, {"/"}),
     apiKey |-> api_key,
     max_retries |-> 3,
     retry_delay |-> 1]

\* Mutant: the timeout is passed on the first attempt only
GetEvent_TimeoutFirstOnly(response) ==
    [response |-> response, url |-> cur.url, ev |-> "get",
     params |-> cur.request_params, session_params |-> [apiKey |-> config.apiKey],
     timeout |-> IF attempt = 0 THEN REQUEST_TIMEOUT ELSE 0]

\* The session.get call of HTTPClient.request, as the network sees it
GetEvent(response) ==
    [response |-> response, url |-> cur.url, ev |-> "get",
     params |-> cur.request_params, session_params |-> [apiKey |-> config.apiKey],
     timeout |-> REQUEST_TIMEOUT]

SleepEvent(secs) == [ev |-> "sleep", secs |-> secs]

\* The end of a public operation: request returned or raised, and the
\* operation maps what it returned into NewsResponse
Finish(result) ==
    /\ reqResult' = result
    /\ outcome' = IF result.tag = "raise" THEN result ELSE NewsResponse(result.value)
    /\ pc' = "idle"

\* HTTPClient.request: the for loop takes its next value, or is exhausted
LoopNext(next) ==
    IF next < config.max_retries
    THEN /\ attempt' = next
         /\ pc' = "attempt"
         /\ UNCHANGED <<reqResult, outcome>>
    ELSE /\ attempt' = attempt
         /\ Finish(Raise(CurrentsConnectionError(Msg(ERROR_MESSAGES.connection_error)),
                         "request:fallthrough"))

\* Mutant: the except branch has no raise on the last attempt, it always
\* sleeps and continues
GetFails_NoLastRaise ==
    /\ pc = "attempt"
    /\ trace' = Append(trace, GetEvent({}))
    /\ pc' = "sleep"
    /\ UNCHANGED <<attempt, reqResult, outcome>>
    /\ UNCHANGED <<callers, environ, ctorArg, cstate, config, sessionsCreated, sessionCloses,
                   scope, scopesEntered, scopesExited, opsStarted, cur>>

\* session.get raises a RequestException
GetFails ==
    /\ pc = "attempt"
    /\ trace' = Append(trace, GetEvent({}))
    /\ IF attempt = config.max_retries - 1
       THEN /\ Finish(Raise(CurrentsConnectionError(Msg(ERROR_MESSAGES.connection_error)),
                            "request:except"))
            /\ UNCHANGED attempt
       ELSE /\ pc' = "sleep"
            /\ UNCHANGED <<attempt, reqResult, outcome>>
    /\ UNCHANGED <<callers, environ, ctorArg, cstate, config, sessionsCreated, sessionCloses,
                   scope, scopesEntered, scopesExited, opsStarted, cur>>

\* Mutant: the delay does not grow with the attempt
Sleep_ConstantDelay ==
    /\ pc = "sleep"
    /\ trace' = Append(trace, SleepEvent(config.retry_delay))
    /\ LoopNext(attempt + 1)
    /\ UNCHANGED <<callers, environ, ctorArg, cstate, config, sessionsCreated, sessionCloses,
                   scope, scopesEntered, scopesExited, opsStarted, cur>>

\* time.sleep(self.retry_delay * (2 ** attempt)); continue
Sleep ==
    /\ pc = "sleep"
    /\ trace' = Append(trace, SleepEvent(config.retry_delay * Pow2(attempt)))
    /\ LoopNext(attempt + 1)
    /\ UNCHANGED <<callers, environ, ctorArg, cstate, config, sessionsCreated, sessionCloses,
                   scope, scopesEntered, scopesExited, opsStarted, cur>>

\* Mutant: the response is handled but the loop is not left when handling
\* returned: the next attempt follows
GetResponds_NoReturn(response) ==
    /\ pc = "attempt"
    /\ trace' = Append(trace, GetEvent({response}))
    /\ IF _handle_response(response).tag = "raise"
       THEN Finish(_handle_response(response)) /\ UNCHANGED attempt
       ELSE LoopNext(attempt + 1)
    /\ UNCHANGED <<callers, environ, ctorArg, cstate, config, sessionsCreated, sessionCloses,
                   scope, scopesEntered, scopesExited, opsStarted, cur>>

\* Mutant: a 5xx response is retried like a transport failure
GetResponds_Retry5xx(response) ==
    /\ pc = "attempt"
    /\ trace' = Append(trace, GetEvent({response}))
    /\ IF response.status_code >= HTTP500 /\ attempt < config.max_retries - 1
       THEN pc' = "sleep" /\ UNCHANGED <<reqResult, outcome>>
       ELSE Finish(_handle_response(response))
    /\ UNCHANGED <<callers, environ, ctorArg, cstate, config, sessionsCreated, sessionCloses,
                   scope, scopesEntered, scopesExited, opsStarted, cur, attempt>>

\* session.get returns a response; return self._handle_response(response)
GetResponds(response) ==
    /\ pc = "attempt"
    /\ trace' = Append(trace, GetEvent({response}))
    /\ Finish(_handle_response(response))
    /\ UNCHANGED <<callers, environ, ctorArg, cstate, config, sessionsCreated, sessionCloses,
                   scope, scopesEntered, scopesExited, opsStarted, cur, attempt>>

\* HTTPClient.close
close ==
    sessionCloses' = IF sessionsCreated > 0 THEN sessionCloses + 1 ELSE sessionCloses

-----------------------------------------------------------------------------
(* client.py: CurrentsClient *)

\* Mutant: the credential is tested against None only, so an empty one passes
Construct_NoneCheck(api_key, base_url) ==
    /\ cstate = "unconstructed"
    /\ ctorArg' = api_key
    /\ LET key == IF Truthy(api_key) THEN api_key ELSE environ
       IN  IF key = NoneStr
           THEN /\ cstate' = "failed"
                /\ outcome' = Raise(CurrentsAuthenticationError(Msg(ERROR_MESSAGES.invalid_api_key)),
                                    "CurrentsClient.__init__")
                /\ UNCHANGED <<config, sessionsCreated>>
           ELSE /\ cstate' = "constructed"
                /\ config' = HTTPClientInit(key, base_url)
                /\ sessionsCreated' = sessionsCreated + 1
                /\ outcome' = Return("CurrentsClient")
    /\ UNCHANGED <<callers, environ, sessionCloses, scope, scopesEntered, scopesExited,
                   opsStarted, cur, pc, attempt, trace, reqResult>>

\* CurrentsClient.__init__
Construct(api_key, base_url) ==
    /\ cstate = "unconstructed"
    /\ ctorArg' = api_key
    /\ LET key == IF Truthy(api_key) THEN api_key ELSE environ
       IN  IF ~Truthy(key)
           THEN /\ cstate' = "failed"
                /\ outcome' = Raise(CurrentsAuthenticationError(Msg(ERROR_MESSAGES.invalid_api_key)),
                                    "CurrentsClient.__init__")
                /\ UNCHANGED <<config, sessionsCreated>>
           ELSE /\ cstate' = "constructed"
                /\ config' = HTTPClientInit(key, base_url)
                /\ sessionsCreated' = sessionsCreated + 1
                /\ outcome' = Return("CurrentsClient")
    /\ UNCHANGED <<callers, environ, sessionCloses, scope, scopesEntered, scopesExited,
                   opsStarted, cur, pc, attempt, trace, reqResult>>

\* Mutant: the attempt counter is kept on the client between calls instead
\* of starting at 0 in each request
Operation_CounterKept(op, args, validation, endpoint, request_params) ==
    /\ cstate = "constructed"
    /\ pc = "idle"
    /\ opsStarted < MaxOps
    /\ opsStarted' = opsStarted + 1
    /\ trace' = <<>>
    /\ cur' = [scope |-> scope, url |-> Append(config.base_url, endpoint),
               request_params |-> request_params, op |-> op, args |-> args]
    /\ IF validation.tag = "raise"
       THEN /\ outcome' = validation
            /\ reqResult' = NoResult
            /\ pc' = "idle"
            /\ attempt' = attempt
       ELSE IF attempt < config.max_retries
       THEN /\ outcome' = NoResult
            /\ reqResult' = NoResult
            /\ pc' = "attempt"
            /\ attempt' = attempt
       ELSE /\ attempt' = attempt
            /\ Finish(Raise(CurrentsConnectionError(Msg(ERROR_MESSAGES.connection_error)),
                            "request:fallthrough"))
    /\ UNCHANGED <<callers, environ, ctorArg, cstate, config, sessionsCreated, sessionCloses,
                   scope, scopesEntered, scopesExited>>

\* The common pipeline of the three operations: validation has run, with
\* result validation; if it raised the operation ends, else request starts
Operation(op, args, validation, endpoint, request_params) ==
    /\ cstate = "constructed"
    /\ pc = "idle"
    /\ opsStarted < MaxOps
    /\ opsStarted' = opsStarted + 1
    /\ trace' = <<>>
    /\ cur' = [scope |-> scope, url |-> Append(config.base_url, endpoint),
               request_params |-> request_params, op |-> op, args |-> args]
    /\ IF validation.tag = "raise"
       THEN /\ outcome' = validation
            /\ reqResult' = NoResult
            /\ pc' = "idle"
            /\ attempt' = 0
       ELSE IF 0 < config.max_retries
       THEN /\ outcome' = NoResult
            /\ reqResult' = NoResult
            /\ pc' = "attempt"
            /\ attempt' = 0
       ELSE /\ attempt' = 0
            /\ Finish(Raise(CurrentsConnectionError(Msg(ERROR_MESSAGES.connection_error)),
                            "request:fallthrough"))
    /\ UNCHANGED <<callers, environ, ctorArg, cstate, config, sessionsCreated, sessionCloses,
                   scope, scopesEntered, scopesExited>>

get_latest_news(language, limit) ==
    Operation("get_latest_news",
              [language |-> language, limit |-> limit],
              validate_params(language, limit, NoneStr),
              LATEST_NEWS_ENDPOINT,
              [language |-> language, limit |-> limit])

\* Mutant: the domain parameter is sent whether or not a domain was given
search_news_DomainAlways(keywords, language, limit, domain) ==
    Operation("search_news",
              [language |-> language, limit |-> limit, keywords |-> keywords,
               domain |-> domain],
              IF validate_params(language, limit, NoneStr).tag = "raise"
              THEN validate_params(language, limit, NoneStr)
              ELSE validate_keywords(keywords),
              SEARCH_ENDPOINT,
              [language |-> language, limit |-> limit, keywords |-> keywords,
               domain |-> domain])

search_news(keywords, language, limit, domain) ==
    Operation("search_news",
              [language |-> language, limit |-> limit, keywords |-> keywords,
               domain |-> domain],
              IF validate_params(language, limit, NoneStr).tag = "raise"
              THEN validate_params(language, limit, NoneStr)
              ELSE validate_keywords(keywords),
              SEARCH_ENDPOINT,
              IF Truthy(domain)
              THEN [language |-> language, limit |-> limit, keywords |-> keywords,
                    domain |-> domain]
              ELSE [language |-> language, limit |-> limit, keywords |-> keywords])

get_category_news(category, language, limit) ==
    Operation("get_category_news",
              [language |-> language, limit |-> limit, category |-> category],
              validate_params(language, limit, category),
              SEARCH_ENDPOINT,
              [language |-> language, limit |-> limit, category |-> category])

\* CurrentsClient.__enter__
Enter ==
    /\ cstate = "constructed"
    /\ pc = "idle"
    /\ scope = "out"
    /\ scopesEntered < MaxScopes
    /\ scope' = "in"
    /\ scopesEntered' = scopesEntered + 1
    /\ UNCHANGED <<callers, environ, ctorArg, cstate, config, sessionsCreated, sessionCloses,
                   scopesExited, opsStarted, cur, pc, attempt, trace, reqResult, outcome>>

\* Mutant: the session is closed only when the with-block ended without error
Exit_SkipOnError ==
    /\ scope = "in"
    /\ pc = "idle"
    /\ IF outcome.tag = "raise" THEN UNCHANGED sessionCloses ELSE close
    /\ scope' = "out"
    /\ scopesExited' = scopesExited + 1
    /\ UNCHANGED <<callers, environ, ctorArg, cstate, config, sessionsCreated, scopesEntered,
                   opsStarted, cur, pc, attempt, trace, reqResult, outcome>>

\* The truth value of what __exit__ returns: it has no return statement, so
\* it returns None
ExitReturnsTrue == FALSE

\* Mutant: __exit__ returns True, which makes the with statement suppress the
\* exception that ended the block
Exit_Suppresses ==
    /\ scope = "in"
    /\ pc = "idle"
    /\ close
    /\ scope' = "out"
    /\ scopesExited' = scopesExited + 1
    /\ outcome' = IF outcome.tag = "raise" THEN NoResult ELSE outcome
    /\ UNCHANGED <<callers, environ, ctorArg, cstate, config, sessionsCreated, scopesEntered,
                   opsStarted, cur, pc, attempt, trace, reqResult>>

\* CurrentsClient.__exit__: the with-block ends, normally or by an exception;
\* the exception that ended it is suppressed only if __exit__ returns true
Exit ==
    /\ scope = "in"
    /\ pc = "idle"
    /\ close
    /\ scope' = "out"
    /\ scopesExited' = scopesExited + 1
    /\ outcome' = IF outcome.tag = "raise" /\ ExitReturnsTrue THEN NoResult ELSE outcome
    /\ UNCHANGED <<callers, environ, ctorArg, cstate, config, sessionsCreated, scopesEntered,
                   opsStarted, cur, pc, attempt, trace, reqResult>>

-----------------------------------------------------------------------------
(* The state machine *)

NoOperation ==
    [scope |-> "out", url |-> <<>>, request_params |-> <<>>, op |-> "none", args |-> <<>>]

\* The threads that share one client, and a thread that has called nothing
Callers == {1, 2}

IdleThread ==
    [cur |-> NoOperation, pc |-> "idle", attempt |-> 0, trace |-> <<>>,
     reqResult |-> NoResult, outcome |-> NoResult, calls |-> 0]

Init ==
    /\ environ \in EnvInputs
    /\ ctorArg = NoneStr
    /\ cstate = "unconstructed"
    /\ config = [base_url |-> <<>>, apiKey |-> NoneStr, max_retries |-> 0, retry_delay |-> 0]
    /\ sessionsCreated = 0
    /\ sessionCloses = 0
    /\ scope = "out"
    /\ scopesEntered = 0
    /\ scopesExited = 0
    /\ opsStarted = 0
    /\ cur = NoOperation
    /\ pc = "idle"
    /\ attempt = 0
    /\ trace = <<>>
    /\ reqResult = NoResult
    /\ outcome = NoResult
    /\ callers = [c \in Callers |-> IdleThread]

Next ==
    \/ \E api_key \in ApiKeyInputs, base_url \in BaseUrlInputs : Construct(api_key, base_url)
    \/ \E language \in LanguageInputs, limit \in LimitInputs : get_latest_news(language, limit)
    \/ \E keywords \in KeywordInputs, language \in LanguageInputs, limit \in LimitInputs,
          domain \in DomainInputs : search_news(keywords, language, limit, domain)
    \/ \E category \in CategoryInputs, language \in LanguageInputs, limit \in LimitInputs :
          get_category_news(category, language, limit)
    \/ GetFails
    \/ \E response \in Responses : GetResponds(response)
    \/ Sleep
    \/ Enter
    \/ Exit

Spec == Init /\ [][Next]_vars

\* session.get returns or raises (at the latest when its timeout expires) and
\* time.sleep returns: a request in progress takes its next step
SpecLive ==
    /\ Spec
    /\ WF_vars(GetFails)
    /\ WF_vars(\E response \in Responses : GetResponds(response))
    /\ WF_vars(Sleep)

-----------------------------------------------------------------------------
(* Several threads sharing one client.  Each thread runs the operations and *)
(* HTTPClient.request on its own stack: url, request_params, attempt and    *)
(* response are locals of the call, kept here in callers[c]; the attributes *)
(* of the client (config, the session) are the shared ones.                 *)

MaxCallsEach == 1

ConcLimitInputs == {1, 101}

ConcResponses ==
    {Response(200, "OK", BodyTwoNews, {}),
     Response(200, "OK", BodyInvalid, {}),
     Response(429, "Too Many Requests", BodyErrorObject, {<<"6", "0">>})}

ThreadFrame ==
    UNCHANGED <<environ, ctorArg, cstate, config, sessionsCreated, sessionCloses,
                scope, scopesEntered, scopesExited, opsStarted, cur, pc, attempt,
                trace, reqResult, outcome>>

\* The session.get call of HTTPClient.request made by thread c
ThreadGetEvent(c, response) ==
    [response |-> response, url |-> callers[c].cur.url, ev |-> "get",
     params |-> callers[c].cur.request_params,
     session_params |-> [apiKey |-> config.apiKey], timeout |-> REQUEST_TIMEOUT]

\* The end of a public operation in a thread with locals t
ThreadFinish(t, result) ==
    [t EXCEPT !.reqResult = result,
              !.outcome = IF result.tag = "raise" THEN result
                          ELSE NewsResponse(result.value),
              !.pc = "idle"]

\* HTTPClient.request in a thread: the for loop takes its next value, or is
\* exhausted
ThreadLoopNext(t, next) ==
    IF next < config.max_retries
    THEN [t EXCEPT !.attempt = next, !.pc = "attempt"]
    ELSE ThreadFinish(t, Raise(CurrentsConnectionError(Msg(ERROR_MESSAGES.connection_error)),
                               "request:fallthrough"))

\* The common pipeline of the three operations, called by thread c
ThreadOperation(c, op, args, validation, endpoint, request_params) ==
    /\ cstate = "constructed"
    /\ callers[c].pc = "idle"
    /\ callers[c].calls < MaxCallsEach
    /\ LET started ==
               [cur |-> [scope |-> scope, url |-> Append(config.base_url, endpoint),
                         request_params |-> request_params, op |-> op, args |-> args],
                pc |-> "idle", attempt |-> 0, trace |-> <<>>,
                reqResult |-> NoResult, outcome |-> NoResult,
                calls |-> callers[c].calls + 1]
       IN  callers' = [callers EXCEPT ![c] =
                          IF validation.tag = "raise"
                          THEN [started EXCEPT !.outcome = validation]
                          ELSE ThreadLoopNext(started, 0)]
    /\ ThreadFrame

\* Thread c calls one of the public operations
ThreadCall(c) ==
    \E limit \in ConcLimitInputs :
        \/ ThreadOperation(c, "get_latest_news",
                           [language |-> "en", limit |-> limit],
                           validate_params("en", limit, NoneStr),
                           LATEST_NEWS_ENDPOINT,
                           [language |-> "en", limit |-> limit])
        \/ ThreadOperation(c, "search_news",
                           [language |-> "en", limit |-> limit, keywords |-> <<"a", "i">>,
                            domain |-> NoneStr],
                           IF validate_params("en", limit, NoneStr).tag = "raise"
                           THEN validate_params("en", limit, NoneStr)
                           ELSE validate_keywords(<<"a", "i">>),
                           SEARCH_ENDPOINT,
                           [language |-> "en", limit |-> limit, keywords |-> <<"a", "i">>])
        \/ ThreadOperation(c, "get_category_news",
                           [language |-> "en", limit |-> limit, category |-> "technology"],
                           validate_params("en", limit, "technology"),
                           SEARCH_ENDPOINT,
                           [language |-> "en", limit |-> limit, category |-> "technology"])

\* session.get raises a RequestException in thread c
ThreadGetFails(c) ==
    /\ callers[c].pc = "attempt"
    /\ LET t == [callers[c] EXCEPT !.trace = Append(@, ThreadGetEvent(c, {}))]
       IN  callers' = [callers EXCEPT ![c] =
                          IF t.attempt = config.max_retries - 1
                          THEN ThreadFinish(t, Raise(CurrentsConnectionError(
                                                        Msg(ERROR_MESSAGES.connection_error)),
                                                    "request:except"))
                          ELSE [t EXCEPT !.pc = "sleep"]]
    /\ ThreadFrame

\* Mutant: the attempt counter is an attribute of the shared client, so the
\* increment of one thread is seen by every thread inside request
ThreadSleep_SharedCounter(c) ==
    /\ callers[c].pc = "sleep"
    /\ LET t == [callers[c] EXCEPT
                   !.trace = Append(@, SleepEvent(config.retry_delay * Pow2(callers[c].attempt)))]
           next == callers[c].attempt + 1
       IN  callers' = [d \in Callers |->
                          IF d = c THEN ThreadLoopNext(t, next)
                          ELSE IF callers[d].pc = "idle" THEN callers[d]
                          ELSE [callers[d] EXCEPT !.attempt = next]]
    /\ ThreadFrame

\* time.sleep(self.retry_delay * (2 ** attempt)); continue, in thread c
ThreadSleep(c) ==
    /\ callers[c].pc = "sleep"
    /\ LET t == [callers[c] EXCEPT
                   !.trace = Append(@, SleepEvent(config.retry_delay * Pow2(callers[c].attempt)))]
       IN  callers' = [callers EXCEPT ![c] = ThreadLoopNext(t, t.attempt + 1)]
    /\ ThreadFrame

\* session.get returns a response to thread c; return self._handle_response(response)
ThreadGetResponds(c, response) ==
    /\ callers[c].pc = "attempt"
    /\ LET t == [callers[c] EXCEPT !.trace = Append(@, ThreadGetEvent(c, {response}))]
       IN  callers' = [callers EXCEPT ![c] = ThreadFinish(t, _handle_response(response))]
    /\ ThreadFrame

NextConc ==
    \/ \E api_key \in ApiKeyInputs, base_url \in BaseUrlInputs : Construct(api_key, base_url)
    \/ \E c \in Callers : ThreadCall(c)
    \/ \E c \in Callers : ThreadGetFails(c)
    \/ \E c \in Callers, response \in ConcResponses : ThreadGetResponds(c, response)
    \/ \E c \in Callers : ThreadSleep(c)
    \/ Enter
    \/ Exit

SpecConc == Init /\ [][NextConc]_vars

-----------------------------------------------------------------------------
(* Vocabulary of the properties *)

\* The positions of the network calls in the trace of the current operation
Gets == {i \in 1..Len(trace) : trace[i].ev = "get"}
Sleeps == {i \in 1..Len(trace) : trace[i].ev = "sleep"}
NumGets == Cardinality(Gets)

\* The network calls that obtained an HTTP response
Answered == {i \in Gets : trace[i].response # {}}
ResponseAt(i) == CHOOSE r \in trace[i].response : TRUE

\* A public operation has been called and has returned or raised
OpDone == opsStarted > 0 /\ pc = "idle"

Raised(kind) == outcome.tag = "raise" /\ outcome.exc.kind = kind

\* The operation was rejected by client-side validation
RejectedByValidation ==
    /\ pc = "idle"
    /\ Raised("CurrentsValidationError")
    /\ outcome.site \in {"validate_language", "validate_limit", "validate_category",
                         "validate_keywords"}
    /\ reqResult = NoResult

-----------------------------------------------------------------------------
(* C1: if every attempt of a request fails at the transport level, the      *)
(* caller receives a Connection error and exactly 3 network calls were made *)
(* for that request: never more than 3 while it runs, exactly 3 when it has *)
(* ended.                                                                   *)
C1_AllAttemptsFail ==
    (NumGets > 0 /\ Answered = {}) =>
        /\ NumGets <= 3
        /\ OpDone => /\ NumGets = 3
                     /\ Raised("CurrentsConnectionError")
                     /\ reqResult = outcome

C1_Witness ==
    /\ OpDone
    /\ NumGets = 3
    /\ Answered = {}
    /\ Raised("CurrentsConnectionError")

(* C2: if the first k-1 attempts fail at the transport level and attempt k  *)
(* obtains a response (1 <= k <= 3), exactly k network calls are made: the  *)
(* answered call is the last event of the request, and the request's result *)
(* is the one that response alone determines; a 2xx response with an        *)
(* object-shaped JSON body makes request return that body.                  *)
C2_OutcomeOfKthResponse ==
    \A k \in Answered :
        LET r == ResponseAt(k)
        IN  /\ k = Len(trace)
            /\ Answered = {k}
            /\ NumGets \in 1..3
            /\ NumGets = attempt + 1
            /\ OpDone
            /\ reqResult = _handle_response(r)
            /\ (r.status_code \in 200..299 /\ r.body.shape = "object")
                   => /\ reqResult = Return(r.body)
                      /\ outcome = NewsResponse(r.body)
            /\ reqResult.tag = "raise" => outcome = reqResult

C2_Witness ==
    /\ OpDone
    /\ NumGets = 3
    /\ Answered = {5}
    /\ ResponseAt(5).status_code = 200
    /\ reqResult.tag = "return"
    /\ outcome.tag = "return"
    /\ outcome.value.status = "ok"

(* C3: retries apply only to transport-level failures: a response with an   *)
(* error status (4xx or 5xx), on whatever attempt, ends the request at once *)
(* with the classified error; no sleep and no network call follows it.      *)
C3_NoRetryOnHttpError ==
    \A i \in Answered :
        LET r == ResponseAt(i)
        IN  r.status_code \in 400..599 =>
                /\ i = Len(trace)
                /\ pc = "idle"
                /\ outcome.tag = "raise"
                /\ outcome = reqResult
                /\ outcome.exc.kind \in
                       {"CurrentsAuthenticationError", "CurrentsRateLimitError",
                        "CurrentsValidationError", "CurrentsServerError", "CurrentsAPIError"}
                /\ outcome.exc.kind = "CurrentsServerError" <=> r.status_code >= 500

C3_Witness ==
    /\ Len(trace) = 3
    /\ Answered = {3}
    /\ ResponseAt(3).status_code = 503
    /\ Raised("CurrentsServerError")

-----------------------------------------------------------------------------
(* The rules of client-side validation, as the caller's arguments decide    *)
(* them                                                                     *)

FourteenLanguages ==
    {"en", "es", "fr", "de", "it", "pt", "ru", "ar", "hi", "zh", "ja", "ko", "th", "vi"}

TwelveCategories ==
    {"world", "politics", "business", "technology", "sports", "entertainment",
     "health", "science", "regional", "hardware", "lifestyle", "travel"}

LanguageCheckFails == cur.args.language \notin FourteenLanguages
LimitCheckFails == ~(1 <= cur.args.limit /\ cur.args.limit <= 100)

\* validate_params runs the category check only for a non-empty category
CategoryCheckFails ==
    /\ cur.op = "get_category_news"
    /\ cur.args.category # ""
    /\ cur.args.category \notin TwelveCategories

KeywordsCheckFails ==
    /\ cur.op = "search_news"
    /\ \A i \in 1..Len(cur.args.keywords) : cur.args.keywords[i] \in {" ", "\t", "\n"}

(* C4: validation fails fast: when a language, limit, category or keywords  *)
(* check of an operation fails, the operation raises the Validation error   *)
(* and has made no network call and no sleep.                               *)
C4_ValidationFailsFast ==
    (cur.op # "none" /\ (LanguageCheckFails \/ LimitCheckFails \/ CategoryCheckFails
                            \/ KeywordsCheckFails))
        => /\ RejectedByValidation
           /\ trace = <<>>

C4_Witness ==
    /\ cur.op = "search_news"
    /\ KeywordsCheckFails
    /\ cur.args.keywords # <<>>
    /\ ~LanguageCheckFails
    /\ ~LimitCheckFails
    /\ RejectedByValidation
    /\ trace = <<>>

(* C5: every call of a public operation ends in exactly one of two ways: it *)
(* returns a NewsResponse, or it raises one error of the typed family; no   *)
(* failure path lets another error reach the caller.                        *)
TypedErrorKinds ==
    {"CurrentsAuthenticationError", "CurrentsRateLimitError", "CurrentsValidationError",
     "CurrentsServerError", "CurrentsConnectionError", "CurrentsResponseError",
     "CurrentsAPIError"}

C5_ReturnsOrRaisesTyped ==
    OpDone =>
        \/ outcome.tag = "return"
        \/ outcome.tag = "raise" /\ outcome.exc.kind \in TypedErrorKinds

(* C6: the error classifier maps a status to one error kind, 401 to         *)
(* Authentication, 429 to RateLimit, 400 to Validation, a status >= 500 to  *)
(* Server and anything else to Generic-API, first match wins; the kind      *)
(* depends on the status alone, whatever the body, and handle_http_error    *)
(* never returns normally.                                                  *)
KindOfStatus(status) ==
    IF status = 401 THEN "CurrentsAuthenticationError"
    ELSE IF status = 429 THEN "CurrentsRateLimitError"
    ELSE IF status = 400 THEN "CurrentsValidationError"
    ELSE IF status >= 500 THEN "CurrentsServerError"
    ELSE "CurrentsAPIError"

C6_ClassifierMapping ==
    /\ \A r \in Responses :
           /\ handle_http_error(r.status_code, r).tag = "raise"
           /\ handle_http_error(r.status_code, r).exc.kind = KindOfStatus(r.status_code)
    /\ \A i \in Answered :
           ResponseAt(i).status_code \in 400..599 =>
               /\ reqResult.tag = "raise"
               /\ reqResult.exc.kind = KindOfStatus(ResponseAt(i).status_code)
               /\ outcome = reqResult

C6_Witness ==
    /\ Answered # {}
    /\ ResponseAt(Len(trace)).status_code = 401
    /\ ResponseAt(Len(trace)).body.shape = "invalid"
    /\ Raised("CurrentsAuthenticationError")

(* C7: every network call an operation dispatches carries a limit in        *)
(* [1,100] and a language of the 14 fixed codes; validation accepts a limit *)
(* n iff 1 <= n <= 100 and a language iff it is one of the 14 codes, and an *)
(* operation given a rejected limit or language fails with Validation.      *)
C7_LimitAndLanguageDispatched ==
    /\ \A i \in Gets :
           /\ trace[i].params.limit \in 1..100
           /\ trace[i].params.language \in FourteenLanguages
    /\ \A n \in LimitInputs : (validate_limit(n) = NoResult) <=> (1 <= n /\ n <= 100)
    /\ \A l \in LanguageInputs \cup FourteenLanguages :
           (validate_language(l) = NoResult) <=> (l \in FourteenLanguages)
    /\ cur.op # "none" =>
           /\ (LanguageCheckFails \/ LimitCheckFails)
                  => RejectedByValidation /\ trace = <<>>
           /\ (cur.op = "get_latest_news" /\ ~LanguageCheckFails /\ ~LimitCheckFails)
                  => ~RejectedByValidation /\ (pc = "idle" => trace # <<>>)

C7_Witness ==
    /\ Gets # {}
    /\ trace[1].params.limit = 100
    /\ trace[1].params.language = "en"

(* C8: every network call dispatched by get_category_news carries a         *)
(* category parameter that is one of the 12 fixed codes; for every other    *)
(* category value the operation fails with Validation and dispatches        *)
(* nothing.                                                                 *)
C8_CategoryOneOfTwelve ==
    cur.op = "get_category_news" =>
        /\ \A i \in Gets : trace[i].params.category \in TwelveCategories
        /\ cur.args.category \notin TwelveCategories
               => RejectedByValidation /\ trace = <<>>

(* C9: the session is acquired once, at construction, and is released       *)
(* exactly once by each client shutdown (scope exit), however many requests *)
(* were made and however they ended; no request creates or releases a       *)
(* session.                                                                 *)
C9_SessionLifecycle ==
    /\ sessionsCreated = (IF cstate = "constructed" THEN 1 ELSE 0)
    /\ sessionCloses = scopesExited
    /\ scope = "in" => sessionCloses = scopesEntered - 1

C9_Witness ==
    /\ sessionsCreated = 1
    /\ sessionCloses = 1
    /\ scope = "out"
    /\ opsStarted = 2
    /\ NumGets = 3
    /\ Raised("CurrentsConnectionError")

(* C10: construction succeeds iff a non-empty credential is passed or,      *)
(* failing that, a non-empty NEWS_API_KEY is in the environment; the        *)
(* credential used is the explicit one, else the environment's; otherwise   *)
(* construction raises Authentication before any session is acquired and    *)
(* before any network call.                                                 *)
NonEmpty(credential) == credential # NoneStr /\ credential # ""

C10_ConstructionCredential ==
    cstate # "unconstructed" =>
        /\ cstate = "constructed" <=> (NonEmpty(ctorArg) \/ NonEmpty(environ))
        /\ cstate = "constructed" =>
               /\ config.apiKey = (IF NonEmpty(ctorArg) THEN ctorArg ELSE environ)
               /\ NonEmpty(config.apiKey)
        /\ cstate = "failed" =>
               /\ Raised("CurrentsAuthenticationError")
               /\ sessionsCreated = 0
               /\ opsStarted = 0
               /\ trace = <<>>

C10_Witness ==
    /\ cstate = "failed"
    /\ ctorArg = NoneStr
    /\ environ = ""
    /\ Raised("CurrentsAuthenticationError")
    /\ sessionsCreated = 0

-----------------------------------------------------------------------------
\* The number of network calls among the first i events of the trace
GetsUpTo(i) == Cardinality({j \in Gets : j <= i})

(* C11: backoff schedule: a sleep follows the transport-level failure of    *)
(* attempt i (0-based) when attempts remain and lasts 1 * 2^i seconds, 1s   *)
(* after the first failure and 2s after the second; no sleep follows the    *)
(* third failed attempt nor an attempt that obtained a response; every      *)
(* sleep has a failed network call right before it and the next network     *)
(* call of the same request right after it.                                 *)
C11_BackoffSchedule ==
    /\ \A i \in Sleeps :
           /\ i > 1
           /\ trace[i - 1].ev = "get"
           /\ trace[i - 1].response = {}
           /\ GetsUpTo(i) \in {1, 2}
           /\ trace[i].secs = 1 * 2 ^ (GetsUpTo(i) - 1)
           /\ GetsUpTo(i) = 1 => trace[i].secs = 1
           /\ GetsUpTo(i) = 2 => trace[i].secs = 2
           /\ IF i < Len(trace) THEN trace[i + 1].ev = "get" ELSE pc = "attempt"
    /\ \A i \in Gets :
           IF trace[i].response = {} /\ GetsUpTo(i) < 3
           THEN IF i < Len(trace) THEN trace[i + 1].ev = "sleep" ELSE pc = "sleep"
           ELSE i = Len(trace) /\ pc = "idle"
    /\ OpDone /\ trace # <<>> => trace[Len(trace)].ev = "get"

C11_Witness ==
    /\ OpDone
    /\ Len(trace) = 5
    /\ trace[1].response = {}
    /\ trace[2] = SleepEvent(1)
    /\ trace[3].response = {}
    /\ trace[4] = SleepEvent(2)
    /\ trace[5].ev = "get"

(* C12: for a 2xx response the body is always parsed as JSON: a body that   *)
(* is not valid JSON gives a Response error "invalid JSON", a body that     *)
(* parses to an array or a scalar gives a Response error "invalid           *)
(* response", and only an object-shaped body is returned by request; in     *)
(* every case the response is the last event of the request (no retry).     *)
C12_SuccessBodyParsing ==
    \A i \in Answered :
        LET r == ResponseAt(i)
        IN  r.status_code \in 200..299 =>
                /\ i = Len(trace)
                /\ pc = "idle"
                /\ r.body.shape = "invalid" =>
                       /\ reqResult.tag = "raise"
                       /\ reqResult.exc.kind = "CurrentsResponseError"
                       /\ reqResult.exc.message.text = "{0}: Invalid JSON"
                       /\ reqResult.exc.message.reason = "Invalid response from API"
                       /\ outcome = reqResult
                /\ r.body.shape \in {"array", "scalar"} =>
                       /\ reqResult.tag = "raise"
                       /\ reqResult.exc.kind = "CurrentsResponseError"
                       /\ reqResult.exc.message.text = "Invalid response from API"
                       /\ outcome = reqResult
                /\ r.body.shape = "object" <=> reqResult.tag = "return"
                /\ reqResult.tag = "return" => reqResult.value = r.body

C12_Witness ==
    /\ OpDone
    /\ Answered = {3}
    /\ ResponseAt(3).status_code = 200
    /\ ResponseAt(3).body.shape = "array"
    /\ Raised("CurrentsResponseError")
    /\ outcome.site = "_handle_response"

-----------------------------------------------------------------------------
\* Retry-After headers ({} is a missing header) with the retry_after expected
\* of each: the integer a decimal text denotes, nothing otherwise
RetryAfterTable ==
    {<<{}, {}>>,
     <<{<<>>}, {}>>,
     <<{<<"6", "0">>}, {60}>>,
     <<{<<"0">>}, {0}>>,
     <<{<<"1", "2", "0">>}, {120}>>,
     <<{<<"s", "o", "o", "n">>}, {}>>,
     <<{<<"1", ".", "5">>}, {}>>,
     <<{<<"6", "0", "s">>}, {}>>,
     <<{<<" ">>}, {}>>}

(* C13: a 429 response always yields a RateLimit error; its retry_after is  *)
(* the integer value of the Retry-After header when the header is present   *)
(* and parses as an integer (60 gives 60), and is unset when the header is  *)
(* missing, empty or non-numeric; parsing the header raises nothing else.   *)
C13_RateLimitRetryAfter ==
    /\ \A t \in RetryAfterTable :
           LET e == _handle_rate_limit_error(
                        Response(429, "Too Many Requests", BodyErrorObject, t[1]))
           IN  /\ e.tag = "raise"
               /\ e.exc.kind = "CurrentsRateLimitError"
               /\ e.exc.retry_after = t[2]
    /\ \A i \in Answered :
           LET r == ResponseAt(i)
           IN  r.status_code = 429 =>
                   /\ reqResult.tag = "raise"
                   /\ reqResult.exc.kind = "CurrentsRateLimitError"
                   /\ outcome = reqResult
                   /\ \E t \in RetryAfterTable :
                          t[1] = r.retry_after /\ reqResult.exc.retry_after = t[2]

C13_Witness ==
    /\ OpDone
    /\ Answered # {}
    /\ ResponseAt(Len(trace)).status_code = 429
    /\ ResponseAt(Len(trace)).retry_after = {<<"6", "0">>}
    /\ Raised("CurrentsRateLimitError")
    /\ outcome.exc.retry_after = {60}

(* C14: every response whose status is not 2xx and is not 401, 429, 400 or  *)
(* >= 500 (418, and also 1xx and 3xx statuses) makes request fail with a    *)
(* Generic-API error whose message includes the numeric status and the      *)
(* reason phrase of the response; such a response is never parsed and       *)
(* returned as a success.                                                   *)
C14_UnclassifiedStatusIsGenericError ==
    \A i \in Answered :
        LET r == ResponseAt(i)
        IN  (r.status_code \notin 200..299 /\ r.status_code \notin {401, 429, 400}
                /\ r.status_code < 500)
                => /\ reqResult.tag = "raise"
                   /\ reqResult.exc.kind = "CurrentsAPIError"
                   /\ reqResult.exc.message.code = {r.status_code}
                   /\ reqResult.exc.message.reason = r.reason
                   /\ outcome = reqResult

-----------------------------------------------------------------------------
\* The fields of the articles of the body request returned that the mapper
\* rejects: a required field that is missing, a malformed url or timestamp
OffendingFields ==
    IF reqResult.tag = "return"
    THEN UNION {ArticleErrors(reqResult.value.news[i]) :
                  i \in 1..Len(reqResult.value.news)}
    ELSE {}

(* C15: when the body handed to the response mapper is an object in which   *)
(* an article lacks a required field (id, title, description, url,          *)
(* language, published) or has a malformed url or published timestamp, the  *)
(* operation fails with a Validation error of the typed family that names   *)
(* the offending field.                                                     *)
C15_MappingFailureNamesField ==
    (OpDone /\ OffendingFields # {})
        => /\ Raised("CurrentsValidationError")
           /\ outcome.exc.field # {}
           /\ outcome.exc.field \subseteq OffendingFields

(* C16: every typed error raised because of an HTTP error response carries, *)
(* as its status_code, the status code of the response that originated it   *)
(* (503 gives 503, 418 gives 418), together with a non-empty message.       *)
C16_ErrorCarriesOriginatingStatus ==
    \A i \in Answered :
        LET r == ResponseAt(i)
        IN  (r.status_code \in 400..599 /\ outcome.tag = "raise")
                => /\ outcome.exc.status_code = {r.status_code}
                   /\ outcome.exc.message.text # ""

-----------------------------------------------------------------------------
\* A keywords string is empty after trimming iff it has no character that is
\* not whitespace
EmptyAfterTrimming(keywords) ==
    \A i \in 1..Len(keywords) : keywords[i] \in {" ", "\t", "\n"}

KeywordSamples ==
    KeywordInputs \cup {<<" ">>, <<"\n">>, <<"a">>, <<" ", "a">>, <<"a", " ">>,
                        <<"a", " ", "b">>, <<"\t", " ", "\n">>}

(* C17: keyword validation fails with a Validation error iff the keywords   *)
(* string is empty after trimming whitespace; so every network call that    *)
(* search_news dispatches carries a keywords parameter that is non-empty    *)
(* after trimming, and it is the string the caller passed.                  *)
C17_KeywordsNonEmptyAfterTrim ==
    /\ \A k \in KeywordSamples :
           /\ (validate_keywords(k).tag = "raise") <=> EmptyAfterTrimming(k)
           /\ validate_keywords(k).tag = "raise"
                  => validate_keywords(k).exc.kind = "CurrentsValidationError"
           /\ validate_keywords(k).tag # "raise" => validate_keywords(k) = NoResult
    /\ cur.op = "search_news" =>
           /\ \A i \in Gets :
                  /\ ~EmptyAfterTrimming(trace[i].params.keywords)
                  /\ trace[i].params.keywords = cur.args.keywords
           /\ (~LanguageCheckFails /\ ~LimitCheckFails) =>
                  (EmptyAfterTrimming(cur.args.keywords)
                      <=> (RejectedByValidation /\ outcome.site = "validate_keywords"))

C17_Witness ==
    /\ cur.op = "search_news"
    /\ Gets # {}
    /\ trace[1].params.keywords = <<" ", "a", "i", " ">>
    /\ OpDone
    /\ ~RejectedByValidation

-----------------------------------------------------------------------------
\* The URL of an endpoint under the API base URL given at construction
UrlOf(path) == <<"https://api.currentsapi.services/v1", path>>

(* C18: each operation dispatches to its own endpoint with exactly its      *)
(* parameter set: get_latest_news sends {language, limit} to /latest-news;  *)
(* search_news sends {keywords, language, limit} to /search, plus domain    *)
(* iff a non-empty domain was supplied, unvalidated; get_category_news      *)
(* sends {category, language, limit} to /search with no keywords parameter. *)
(* The values sent are the values the caller passed.                        *)
C18_EndpointAndParameterSet ==
    \A i \in Gets :
        LET g == trace[i]
            names == DOMAIN g.params
        IN  /\ cur.op \in {"get_latest_news", "search_news", "get_category_news"}
            /\ \A n \in names : g.params[n] = cur.args[n]
            /\ cur.op = "get_latest_news" =>
                   /\ g.url = UrlOf("/latest-news")
                   /\ names = {"language", "limit"}
            /\ cur.op = "search_news" =>
                   /\ g.url = UrlOf("/search")
                   /\ names = {"keywords", "language", "limit"}
                                 \cup (IF cur.args.domain \notin {NoneStr, ""}
                                       THEN {"domain"} ELSE {})
            /\ cur.op = "get_category_news" =>
                   /\ g.url = UrlOf("/search")
                   /\ names = {"category", "language", "limit"}

C18_Witness ==
    /\ cur.op = "search_news"
    /\ Gets # {}
    /\ trace[1].url = UrlOf("/search")
    /\ DOMAIN trace[1].params = {"keywords", "language", "limit", "domain"}
    /\ trace[1].params.domain = "example.com"

(* C19: for every NewsResponse an operation returns, total_count equals the *)
(* length of its news sequence, for the empty sequence and for non-empty    *)
(* ones, and the news sequence has the articles of the API response in the  *)
(* order of the response.                                                   *)
C19_TotalCountAndOrder ==
    (OpDone /\ outcome.tag = "return") =>
        LET sent == ResponseAt(Len(trace)).body.news
            news_response == outcome.value
        IN  /\ total_count(news_response) = Len(news_response.news)
            /\ total_count(news_response) = Len(sent)
            /\ sent = <<>> => total_count(news_response) = 0
            /\ \A i \in 1..Len(sent) :
                   /\ news_response.news[i].id = sent[i].id
                   /\ news_response.news[i].title = sent[i].title
                   /\ news_response.news[i].url = sent[i].url

C19_Witness ==
    /\ OpDone
    /\ outcome.tag = "return"
    /\ total_count(outcome.value) = 2
    /\ outcome.value.news[1].id = "test-id-1"
    /\ outcome.value.news[2].id = "test-id-2"

(* C20: every network call, the first attempt and each retry alike, is a    *)
(* GET with the fixed 30-second timeout, the URL and query parameters of    *)
(* the first attempt of that request, and the credential fixed at           *)
(* construction as a query parameter.                                       *)
C20_EveryCallSameRequest ==
    \A i \in 1..Len(trace) :
        trace[i].ev # "sleep" =>
            /\ trace[i].ev = "get"
            /\ trace[i].timeout = 30
            /\ trace[i].url = trace[1].url
            /\ trace[i].params = trace[1].params
            /\ DOMAIN trace[i].session_params = {"apiKey"}
            /\ trace[i].session_params.apiKey =
                   (IF NonEmpty(ctorArg) THEN ctorArg ELSE environ)
            /\ NonEmpty(trace[i].session_params.apiKey)

C20_Witness ==
    /\ NumGets = 3
    /\ trace[5].timeout = 30
    /\ trace[5].url = trace[1].url
    /\ trace[5].params = trace[1].params
    /\ trace[5].session_params.apiKey = "env-api-key"

-----------------------------------------------------------------------------
\* The rule reported for the arguments of the current operation when the
\* rules are tried in the order language, limit, category, keywords
FirstViolatedRule ==
    IF LanguageCheckFails THEN "language"
    ELSE IF LimitCheckFails THEN "limit"
    ELSE IF CategoryCheckFails THEN "category"
    ELSE IF KeywordsCheckFails THEN "keywords"
    ELSE "none"

\* The rule the raised Validation error reports, read from its message
ReportedRule ==
    IF ~RejectedByValidation THEN "none"
    ELSE IF outcome.exc.message.text =
              "Invalid language code. Supported: en, es, fr, de, it, pt, ru, ar, hi, zh, ja, ko, th, vi"
    THEN "language"
    ELSE IF outcome.exc.message.text = "Limit must be between 1 and 100" THEN "limit"
    ELSE IF outcome.exc.message.text =
              "Invalid category. Supported: world, politics, business, technology, sports, entertainment, health, science, regional, hardware, lifestyle, travel"
    THEN "category"
    ELSE IF outcome.exc.message.text = "Invalid request parameters provided" THEN "keywords"
    ELSE "other"

(* C21: validation runs in a fixed order and reports the first violated     *)
(* rule: language, then limit, then category (only when a non-empty         *)
(* category is supplied), and for search_news keywords after language and   *)
(* limit; when several inputs are invalid at once the error raised is the   *)
(* one of the earliest rule in that order.                                  *)
C21_FirstViolatedRuleReported ==
    cur.op # "none" => ReportedRule = FirstViolatedRule

C21_Witness ==
    /\ cur.op = "search_news"
    /\ LanguageCheckFails
    /\ LimitCheckFails
    /\ KeywordsCheckFails
    /\ RejectedByValidation
    /\ ReportedRule = "language"

-----------------------------------------------------------------------------
\* The network calls thread c has made for its current request
ThreadGets(c) == {i \in 1..Len(callers[c].trace) : callers[c].trace[i].ev = "get"}

\* What one thread sees of its own request, whatever the other threads do
OwnRequestOutcome(c) ==
    LET t == callers[c]
        n == Cardinality(ThreadGets(c))
    IN  /\ n <= 3
        /\ t.pc = "attempt" => n = t.attempt
        /\ t.pc = "sleep" => n = t.attempt + 1
        /\ \A i \in ThreadGets(c) :
               /\ t.trace[i].url = t.cur.url
               /\ t.trace[i].params = t.cur.request_params
               /\ t.trace[i].session_params.apiKey =
                      (IF NonEmpty(ctorArg) THEN ctorArg ELSE environ)
               /\ t.trace[i].response # {} => i = Len(t.trace) /\ t.pc = "idle"
        /\ (t.pc = "idle" /\ t.trace # <<>>) =>
               LET last == t.trace[Len(t.trace)]
               IN  /\ last.ev = "get"
                   /\ n >= 1
                   /\ last.response = {} =>
                          /\ n = 3
                          /\ t.outcome.tag = "raise"
                          /\ t.outcome.exc.kind = "CurrentsConnectionError"
                   /\ \A r \in last.response :
                          /\ t.reqResult = _handle_response(r)
                          /\ r.status_code = 429 =>
                                 /\ t.outcome.tag = "raise"
                                 /\ t.outcome.exc.kind = "CurrentsRateLimitError"
                          /\ (r.status_code = 200 /\ r.body.shape = "invalid") =>
                                 /\ t.outcome.tag = "raise"
                                 /\ t.outcome.exc.kind = "CurrentsResponseError"
                          /\ (r.status_code = 200 /\ r.body.shape = "object") =>
                                 /\ t.outcome.tag = "return"
                                 /\ Len(t.outcome.value.news) = Len(r.body.news)

\* The shared attributes of a constructed client
SharedConfiguration ==
    cstate = "constructed" =>
        /\ config.apiKey = (IF NonEmpty(ctorArg) THEN ctorArg ELSE environ)
        /\ config.base_url = <<"https://api.currentsapi.services/v1">>
        /\ config.max_retries = 3
        /\ config.retry_delay = 1
        /\ sessionsCreated = 1

(* C22: when several threads use one client at once, the shared             *)
(* configuration (credential, base URL, max_retries, retry_delay) is never  *)
(* written after construction, by request, by a public operation or by      *)
(* close, and the attempt counter is local to each request: under every     *)
(* interleaving each request makes at most 3 network calls and gets the     *)
(* outcome of its own attempts.                                             *)
C22_SharedConfigurationReadOnly ==
    /\ [](SharedConfiguration /\ \A c \in Callers : OwnRequestOutcome(c))
    /\ [][cstate = "constructed" => (config' = config /\ ctorArg' = ctorArg
                                      /\ sessionsCreated' = sessionsCreated)]_vars

C22_Witness ==
    /\ callers[1].pc = "sleep"
    /\ callers[1].attempt = 1
    /\ callers[1].cur.op = "get_latest_news"
    /\ callers[2].pc = "attempt"
    /\ callers[2].attempt = 0
    /\ callers[2].cur.op = "search_news"
    /\ sessionCloses = 1

-----------------------------------------------------------------------------
RECURSIVE SecondsSlept(_)
SecondsSlept(events) ==
    IF events = <<>> THEN 0
    ELSE (IF Head(events).ev = "sleep" THEN Head(events).secs ELSE 0)
             + SecondsSlept(Tail(events))

\* HTTPClient.request was entered by the current operation and has ended
RequestEnded == OpDone /\ ~RejectedByValidation

(* C23: HTTPClient.request terminates for every sequence of transport       *)
(* outcomes: it returns or raises after at least 1 and at most 3 network    *)
(* calls and at most 2 sleeps (at most 3 seconds of backoff), and the       *)
(* Connection error after the retry loop (the fall-through raise) is never  *)
(* the one reached.                                                         *)
C23_RequestTerminates ==
    /\ (pc # "idle") ~> (pc = "idle")
    /\ [](/\ NumGets <= 3
          /\ Cardinality(Sleeps) <= 2
          /\ SecondsSlept(trace) <= 3
          /\ reqResult.tag = "raise" => reqResult.site # "request:fallthrough"
          /\ outcome.tag = "raise" => outcome.site # "request:fallthrough"
          /\ RequestEnded => NumGets >= 1 /\ reqResult.tag \in {"return", "raise"})

C23_Witness ==
    /\ RequestEnded
    /\ NumGets = 3
    /\ Cardinality(Sleeps) = 2
    /\ SecondsSlept(trace) = 3
    /\ Raised("CurrentsConnectionError")
    /\ outcome.site = "request:except"

(* C24: calls on one client are independent of its history: after any       *)
(* sequence of earlier calls, however they ended, the next call starts with *)
(* the full budget of 3 attempts and a backoff restarting at 1s, and its    *)
(* outcome depends only on its own arguments and on the transport outcomes  *)
(* of its own attempts.                                                     *)
C24_CallsIndependentOfHistory ==
    /\ [][opsStarted' # opsStarted =>
              /\ trace' = <<>>
              /\ attempt' = 0
              /\ reqResult' = NoResult
              /\ config' = config
              /\ IF FirstViolatedRule' = "none"
                 THEN pc' = "attempt" /\ outcome' = NoResult
                 ELSE pc' = "idle" /\ RejectedByValidation']_vars
    /\ [](opsStarted > 0 =>
              /\ pc = "attempt" => NumGets = attempt /\ 3 - NumGets \in 1..3
              /\ pc = "sleep" => NumGets = attempt + 1
              /\ (Len(trace) >= 2 /\ trace[2].ev = "sleep") => trace[2].secs = 1
              /\ pc = "idle" =>
                     /\ RejectedByValidation <=> FirstViolatedRule # "none"
                     /\ RequestEnded =>
                            /\ Answered = {} =>
                                   NumGets = 3 /\ Raised("CurrentsConnectionError")
                            /\ \A i \in Answered :
                                   /\ reqResult = _handle_response(ResponseAt(i))
                                   /\ outcome = IF reqResult.tag = "raise" THEN reqResult
                                                ELSE NewsResponse(reqResult.value))

C24_Witness ==
    /\ opsStarted = 2
    /\ RequestEnded
    /\ Len(trace) = 5
    /\ trace[2] = SleepEvent(1)
    /\ trace[4] = SleepEvent(2)
    /\ Answered = {5}
    /\ outcome.tag = "return"
    /\ total_count(outcome.value) = 2

(* C25: leaving the client scope never swallows a failure: when an          *)
(* operation inside the with-block raised, __exit__ releases the session    *)
(* and the same error reaches the caller unchanged; when nothing raised,    *)
(* __exit__ releases the session and raises nothing.                        *)
C25_ExitPropagatesFailure ==
    [][scopesExited' # scopesExited =>
          /\ scope = "in" /\ scope' = "out"
          /\ sessionCloses' = sessionCloses + 1
          /\ outcome' = outcome
          /\ reqResult' = reqResult]_vars

C25_Witness ==
    /\ scope = "out"
    /\ scopesExited = 1
    /\ sessionCloses = 1
    /\ cur.scope = "in"
    /\ pc = "idle"
    /\ Raised("CurrentsServerError")

-----------------------------------------------------------------------------
\* The status code each kind of error carries; {} is unset
StatusOfKind(kind) ==
    IF kind = "CurrentsAuthenticationError" THEN {401}
    ELSE IF kind = "CurrentsRateLimitError" THEN {429}
    ELSE IF kind = "CurrentsValidationError" THEN {400}
    ELSE IF kind = "CurrentsServerError" THEN {500}
    ELSE {}

(* C26: the status_code of every error the client raises is a function of   *)
(* its kind alone: Authentication 401, RateLimit 429, Validation 400,       *)
(* Server 500, and unset for Connection, Response and Generic-API; a        *)
(* client-side validation error raised before any network call carries 400  *)
(* and the construction-time Authentication error carries 401, although no  *)
(* HTTP response exists.                                                    *)
C26_StatusCodeByKind ==
    /\ (outcome.tag = "raise" /\ outcome.exc.kind \in TypedErrorKinds)
           => outcome.exc.status_code = StatusOfKind(outcome.exc.kind)
    /\ (reqResult.tag = "raise" /\ reqResult.exc.kind \in TypedErrorKinds)
           => reqResult.exc.status_code = StatusOfKind(reqResult.exc.kind)
    /\ RejectedByValidation => outcome.exc.status_code = {400} /\ trace = <<>>
    /\ cstate = "failed" => outcome.exc.status_code = {401} /\ trace = <<>>
    /\ \A r \in Responses :
           handle_http_error(r.status_code, r).exc.status_code
               = StatusOfKind(handle_http_error(r.status_code, r).exc.kind)

C26_Witness ==
    /\ opsStarted > 0
    /\ RejectedByValidation
    /\ outcome.site = "validate_limit"
    /\ outcome.exc.status_code = {400}
    /\ Gets = {}

====
